---- MODULE Spec2Model ----
(***************************************************************************)
(* The ABCI application of kchain (src/abci/main.go): PersistentApplication *)
(* over an iavl.VersionedTree, with its per-block validator updates and its *)
(* genesis validator map.                                                   *)
(*                                                                          *)
(* Two application instances are modelled: `app` and `peer`.  Both receive  *)
(* the same ordered InitChain/BeginBlock/DeliverTx/EndBlock/Commit calls;   *)
(* CheckTx, Query and Info reach each instance on its own.                  *)
(*                                                                          *)
(* Byte strings are sequences of small naturals, compared as Go's           *)
(* bytes.Compare does.  A string prefix ("val:", the account prefix) is one *)
(* symbol of that alphabet.                                                 *)
(***************************************************************************)
EXTENDS Integers, Sequences, FiniteSets, TLC

VARIABLES app, peer, last, added, accepted, hist

vars == <<app, peer, last, added, accepted, hist>>

-----------------------------------------------------------------------------
(* Bounds of the model *)

\* Commit is not taken beyond this height
MaxHeight == 2
\* ValUpdates is not grown beyond this length
MaxUpdates == 2
\* InitChain requests carry at most this many validators
MaxGenesis == 2

-----------------------------------------------------------------------------
(* Byte strings, keys and values *)

EmptyBytes == <<>>

\* the two public keys of the model
PubKeys == {<<1>>, <<2>>}

\* the powers transactions and genesis validators carry; 0 removes
Powers == {0, 1, 2}

\* "val:" : ValidatorSetChangePrefix, and the literal in updateValidator
ValidatorSetChangePrefix == <<7>>

\* cnst.AccountPrefix (DeliverTx) and AccountSetChangePrefix (CheckTx)
AccountPrefix == <<4>>

AccountSetChangePrefix == AccountPrefix

\* bytes.Compare(a, b) < 0
RECURSIVE BytesLess(_, _)
BytesLess(a, b) ==
    IF b = <<>> THEN FALSE
    ELSE IF a = <<>> THEN TRUE
    ELSE IF Head(a) # Head(b) THEN Head(a) < Head(b)
    ELSE BytesLess(Tail(a), Tail(b))

\* strings.HasPrefix(s, p)
HasPrefix(s, p) == Len(s) >= Len(p) /\ SubSeq(s, 1, Len(p)) = p

\* stored values: what wrote them decides how they read back
NilValue == [enc |-> "nil", pk |-> EmptyBytes, n |-> 0]

\* an arbitrary caller-supplied value of a key/value write
RawValue == [enc |-> "raw", pk |-> EmptyBytes, n |-> 0]

\* strconv.Itoa(power)
Itoa(n) == [enc |-> "itoa", pk |-> EmptyBytes, n |-> n]

\* types.WriteMessage(&types.Validator{PubKey, Power}, buf): never fails on a
\* Validator message
WriteMessage(v) == [err |-> FALSE, bytes |-> [enc |-> "wire", pk |-> v.PubKey, n |-> v.Power]]

\* types.ReadMessage(buf, validator)
ReadMessage(value) ==
    IF value.enc = "wire"
    THEN [err |-> FALSE, validator |-> [PubKey |-> value.pk, Power |-> value.n]]
    ELSE [err |-> TRUE, validator |-> [PubKey |-> EmptyBytes, Power |-> 0]]

-----------------------------------------------------------------------------
(* iavl.VersionedTree: the working tree as a function from its keys to      *)
(* their values, and the latest saved version                               *)

\* tree.Has(key)
Has(tree, key) == key \in DOMAIN tree

\* tree.Get(key): the index is the number of keys below `key`, the value is
\* nil when the key is absent
Get(tree, key) ==
    [index |-> Cardinality({k \in DOMAIN tree : BytesLess(k, key)}),
     value |-> IF Has(tree, key) THEN tree[key] ELSE NilValue]

\* tree.Set(key, value)
Set(tree, key, value) ==
    [k \in DOMAIN tree \cup {key} |-> IF k = key THEN value ELSE tree[k]]

\* tree.Remove(key)
Remove(tree, key) == [k \in DOMAIN tree \ {key} |-> tree[k]]

\* tree.Size()
Size(tree) == Cardinality(DOMAIN tree)

\* tree.Hash(): the root fingerprint, a digest of the tree's contents
Hash(tree) == [root |-> tree]

EmptyTree == [k \in {} |-> NilValue]

-----------------------------------------------------------------------------
(* Result codes (kchain/types/code) and transaction types (kchain/types/cnst) *)

CodeOk == "Ok"

CodeTypeEncodingError == "EncodingError"

CodeTypeUnauthorized == "Unauthorized"

CodeTypeBadNonce == "BadNonce"

DbSet == "DbSet"

AccountSet == "AccountSet"

ValidatorSet == "ValidatorSet"

UnknownType == "Unknown"

DbGet == "DbGet"

-----------------------------------------------------------------------------
(* Transaction (tx1): the result of Transaction.FromBytes on a payload.     *)
(*   err        FromBytes returned an error                                 *)
(*   Type       the transaction type, UnknownType for any unrecognised one  *)
(*   Signature  the signature bytes, empty when unsigned                    *)
(*   SignPubKey the signer's public key                                     *)
(*   ok         the payload decodes (CheckDb / ToAccount / ToValidator)     *)
(*   PubKey, Power   the decoded account or validator                       *)
(*   Key        the key of a key/value write                                *)

SomeSignature == <<9>>

MkTx(err, type, sig, signer, ok, pk, power, key) ==
    [err |-> err, Type |-> type, Signature |-> sig, SignPubKey |-> signer,
     ok |-> ok, PubKey |-> pk, Power |-> power, Key |-> key]

\* the signer fields <<Signature, SignPubKey>>: none, a public key without a
\* signature, or a signature with a public key
Signers ==
    {<<EmptyBytes, EmptyBytes>>, <<EmptyBytes, <<1>> >>}
    \cup {<<SomeSignature, k>> : k \in PubKeys}

PlainKey == <<2>>

ValidatorTx(s, k, p) == MkTx(FALSE, ValidatorSet, s[1], s[2], TRUE, k, p, EmptyBytes)

AccountTx(s, k, p) == MkTx(FALSE, AccountSet, s[1], s[2], TRUE, k, p, EmptyBytes)

DbTx(s, key) == MkTx(FALSE, DbSet, s[1], s[2], TRUE, EmptyBytes, 0, key)

\* a transaction of a known type whose payload does not decode
BadPayloadTx(s, type) == MkTx(FALSE, type, s[1], s[2], FALSE, EmptyBytes, 0, EmptyBytes)

\* a payload FromBytes does not recognise, with or without an error
UnknownTx(s, e) == MkTx(e, UnknownType, s[1], s[2], FALSE, EmptyBytes, 0, EmptyBytes)

Unsigned == <<EmptyBytes, EmptyBytes>>

\* tx1.ToValidator() / tx1.ToAccount(): the decoded record and whether the
\* decoding failed; a failed decoding yields the zero record
ToValidator(tx) ==
    IF tx.ok THEN [err |-> FALSE, PubKey |-> tx.PubKey, Power |-> tx.Power]
    ELSE [err |-> TRUE, PubKey |-> EmptyBytes, Power |-> 0]

ToAccount(tx) ==
    IF tx.ok THEN [err |-> FALSE, PubKey |-> tx.PubKey, Power |-> tx.Power]
    ELSE [err |-> TRUE, PubKey |-> EmptyBytes, Power |-> 0]

\* tx1.CheckDb()
CheckDb(tx) == [err |-> ~tx.ok]

\* tx1.DbSave(): the payload's key and value written into the tree
DbSave(tree, tx) == Set(tree, tx.Key, RawValue)

-----------------------------------------------------------------------------
(* PersistentApplication *)

\* GenesisValidators: a Go map, nil until BeginBlock makes one
NilMap == [nil |-> TRUE, m |-> [k \in {} |-> 0]]

EmptyMap == [nil |-> FALSE, m |-> [k \in {} |-> 0]]

\* app.GenesisValidators[key]: 0 for a missing key, also on a nil map
MapGet(g, key) == IF key \in DOMAIN g.m THEN g.m[key] ELSE 0

\* app.GenesisValidators[key] = value, on a map that is not nil
MapPut(g, key, value) ==
    [nil |-> FALSE,
     m |-> [k \in DOMAIN g.m \cup {key} |-> IF k = key THEN value ELSE g.m[k]]]

\* NewPersistentApplication: an empty tree at version 0, no ValUpdates, a nil
\* GenesisValidators
NewPersistentApplication ==
    [state |-> EmptyTree, latestVersion |-> 0, ValUpdates |-> <<>>,
     GenesisValidators |-> NilMap, crashed |-> FALSE]

\* a panic ends the process: its working tree, ValUpdates and
\* GenesisValidators are gone, the versions it saved remain
Panic(a) ==
    [state |-> EmptyTree, latestVersion |-> a.latestVersion, ValUpdates |-> <<>>,
     GenesisValidators |-> NilMap, crashed |-> TRUE]

MkValidator(pk, power) == [PubKey |-> pk, Power |-> power]

-----------------------------------------------------------------------------
(* The operations, each as the application it leaves and what it returns *)

\* updateValidator(v): add, update, or remove a validator
updateValidator(a, v) ==
    LET key == ValidatorSetChangePrefix \o v.PubKey
        value == WriteMessage(v)
    IN  IF v.Power = 0
        THEN IF ~Has(a.state, key)
             THEN [app |-> a, code |-> CodeTypeUnauthorized]
             ELSE [app |-> [a EXCEPT !.state = Remove(a.state, key),
                                     !.ValUpdates = Append(a.ValUpdates, v)],
                   code |-> CodeOk]
        ELSE IF value.err
             THEN [app |-> a, code |-> CodeTypeEncodingError]
             ELSE [app |-> [a EXCEPT !.state = Set(a.state, key, value.bytes),
                                     !.ValUpdates = Append(a.ValUpdates, v)],
                   code |-> CodeOk]

\* the removal branch without its Has check
DeliverValidator_RemovesUnchecked(a, val) ==
    LET key == ValidatorSetChangePrefix \o val.PubKey
        v == MkValidator(val.PubKey, val.Power)
    IN  IF val.Power = 0
        THEN [app |-> [a EXCEPT !.state = Remove(a.state, key),
                                !.ValUpdates = Append(a.ValUpdates, v)],
              code |-> CodeOk]
        ELSE [app |-> [a EXCEPT !.state = Set(a.state, key, WriteMessage(v).bytes),
                                !.ValUpdates = Append(a.ValUpdates, v)],
              code |-> CodeOk]

\* the removal branch reporting the removal without removing the key
DeliverValidator_KeepsKey(a, val) ==
    LET key == ValidatorSetChangePrefix \o val.PubKey
        v == MkValidator(val.PubKey, val.Power)
    IN  IF val.Power = 0
        THEN IF ~Has(a.state, key)
             THEN [app |-> a, code |-> CodeTypeUnauthorized]
             ELSE [app |-> [a EXCEPT !.ValUpdates = Append(a.ValUpdates, v)],
                   code |-> CodeOk]
        ELSE [app |-> [a EXCEPT !.state = Set(a.state, key, WriteMessage(v).bytes),
                                !.ValUpdates = Append(a.ValUpdates, v)],
              code |-> CodeOk]

\* the ValidatorSet case of DeliverTx, on the decoded validator
DeliverValidator(a, val) ==
    LET key == ValidatorSetChangePrefix \o val.PubKey
        v == MkValidator(val.PubKey, val.Power)
        value == WriteMessage(v)
    IN  IF val.Power = 0
        THEN IF ~Has(a.state, key)
             THEN [app |-> a, code |-> CodeTypeUnauthorized]
             ELSE [app |-> [a EXCEPT !.state = Remove(a.state, key),
                                     !.ValUpdates = Append(a.ValUpdates, v)],
                   code |-> CodeOk]
        ELSE IF value.err
             THEN [app |-> a, code |-> CodeTypeEncodingError]
             ELSE [app |-> [a EXCEPT !.state = Set(a.state, key, value.bytes),
                                     !.ValUpdates = Append(a.ValUpdates, v)],
                   code |-> CodeOk]

\* the AccountSet case of DeliverTx, on the decoded account
DeliverAccount(a, account) ==
    [app |-> [a EXCEPT !.state = Set(a.state, AccountPrefix \o account.PubKey,
                                     Itoa(account.Power))],
     code |-> CodeOk]

\* DeliverTx storing a payload of no known type as a key/value write
DeliverTxF_StoresUnknown(a, tx, nilOnDecodeErr) ==
    CASE tx.Type = AccountSet ->
            IF ToAccount(tx).err /\ nilOnDecodeErr
            THEN [app |-> Panic(a), code |-> "panic"]
            ELSE DeliverAccount(a, ToAccount(tx))
      [] tx.Type = ValidatorSet ->
            IF ToValidator(tx).err /\ nilOnDecodeErr
            THEN [app |-> Panic(a), code |-> "panic"]
            ELSE DeliverValidator(a, ToValidator(tx))
      [] OTHER ->
            [app |-> [a EXCEPT !.state = DbSave(a.state, tx)], code |-> CodeOk]

\* DeliverTx(txBytes); the errors of FromBytes, CheckDb, ToAccount and
\* ToValidator are dropped, and a record that failed to decode is either a
\* nil pointer (the dereference panics) or the zero record
DeliverTxF(a, tx, nilOnDecodeErr) ==
    CASE tx.Type = DbSet ->
            [app |-> [a EXCEPT !.state = DbSave(a.state, tx)], code |-> CodeOk]
      [] tx.Type = AccountSet ->
            IF ToAccount(tx).err /\ nilOnDecodeErr
            THEN [app |-> Panic(a), code |-> "panic"]
            ELSE DeliverAccount(a, ToAccount(tx))
      [] tx.Type = ValidatorSet ->
            IF ToValidator(tx).err /\ nilOnDecodeErr
            THEN [app |-> Panic(a), code |-> "panic"]
            ELSE DeliverValidator(a, ToValidator(tx))
      [] OTHER ->
            [app |-> a, code |-> CodeTypeEncodingError]

\* CheckTx without the GenesisValidators test of its AccountSet and
\* ValidatorSet cases
CheckTxCode_NoGenesisCheck(a, tx) ==
    IF tx.err THEN CodeTypeEncodingError
    ELSE IF /\ tx.Signature # EmptyBytes
            /\ Get(a.state, AccountSetChangePrefix \o tx.SignPubKey).index = 0
    THEN CodeTypeEncodingError
    ELSE CASE tx.Type = DbSet ->
                IF CheckDb(tx).err THEN CodeTypeEncodingError ELSE CodeOk
           [] tx.Type = AccountSet ->
                IF ToAccount(tx).err THEN CodeTypeEncodingError ELSE CodeOk
           [] tx.Type = ValidatorSet ->
                IF ToValidator(tx).err THEN CodeTypeEncodingError ELSE CodeOk
           [] OTHER -> CodeTypeEncodingError

\* CheckTx(txBytes): the result code; the application is only read
CheckTxCode(a, tx) ==
    IF tx.err THEN CodeTypeEncodingError
    ELSE IF /\ tx.Signature # EmptyBytes
            /\ Get(a.state, AccountSetChangePrefix \o tx.SignPubKey).index = 0
    THEN CodeTypeEncodingError
    ELSE CASE tx.Type = DbSet ->
                IF CheckDb(tx).err THEN CodeTypeEncodingError ELSE CodeOk
           [] tx.Type = AccountSet ->
                IF MapGet(a.GenesisValidators, tx.SignPubKey) = 0
                THEN CodeTypeEncodingError
                ELSE IF ToAccount(tx).err THEN CodeTypeEncodingError ELSE CodeOk
           [] tx.Type = ValidatorSet ->
                IF MapGet(a.GenesisValidators, tx.SignPubKey) = 0
                THEN CodeTypeEncodingError
                ELSE IF ToValidator(tx).err THEN CodeTypeEncodingError ELSE CodeOk
           [] OTHER -> CodeTypeEncodingError

\* CheckTx carrying the transaction out, as DeliverTx does
CheckTxF_Executes(a, tx) ==
    [app |-> DeliverTxF(a, tx, FALSE).app, code |-> CheckTxCode(a, tx)]

\* CheckTx clearing the block's updates, as BeginBlock does
CheckTxF_Resets(a, tx) ==
    [app |-> [a EXCEPT !.ValUpdates = <<>>], code |-> CheckTxCode(a, tx)]

CheckTxF(a, tx) == [app |-> a, code |-> CheckTxCode(a, tx)]

\* Commit saving the version after the next one
CommitF_Skips(a) ==
    IF a.state = EmptyTree
    THEN [app |-> Panic(a), code |-> "panic", data |-> Hash(EmptyTree)]
    ELSE [app |-> [a EXCEPT !.latestVersion = a.latestVersion + 2],
          code |-> CodeOk, data |-> Hash(a.state)]

\* Commit(): SaveVersion(LatestVersion() + 1) fails on an empty tree (a nil
\* root), and Commit panics on the failure
CommitF(a) ==
    LET height == a.latestVersion + 1
    IN  IF a.state = EmptyTree
        THEN [app |-> Panic(a), code |-> "panic", data |-> Hash(EmptyTree)]
        ELSE [app |-> [a EXCEPT !.latestVersion = height],
              code |-> CodeOk, data |-> Hash(a.state)]

\* Info(req)
InfoF(a) ==
    [size |-> Size(a.state), LastBlockHeight |-> a.latestVersion,
     LastBlockAppHash |-> Hash(a.state)]

\* Query telling presence by the index, as CheckTx does for the signer
QueryF_ByIndex(a, q) ==
    IF q.path = DbGet
    THEN IF ~q.ok
         THEN [code |-> CodeTypeBadNonce, log |-> "unmarshal error",
               index |-> 0, value |-> NilValue]
         ELSE [code |-> CodeOk,
               log |-> IF Get(a.state, q.key).index # 0
                       THEN "exists" ELSE "does not exist",
               index |-> Get(a.state, q.key).index,
               value |-> Get(a.state, q.key).value]
    ELSE [code |-> CodeTypeBadNonce, log |-> "wrong path",
          index |-> 0, value |-> NilValue]

\* Query(reqQuery); q.ok: the request data unmarshals
QueryF(a, q) ==
    IF q.path = DbGet
    THEN IF ~q.ok
         THEN [code |-> CodeTypeBadNonce, log |-> "unmarshal error",
               index |-> 0, value |-> NilValue]
         ELSE [code |-> CodeOk,
               log |-> IF Get(a.state, q.key).value # NilValue
                       THEN "exists" ELSE "does not exist",
               index |-> Get(a.state, q.key).index,
               value |-> Get(a.state, q.key).value]
    ELSE [code |-> CodeTypeBadNonce, log |-> "wrong path",
          index |-> 0, value |-> NilValue]

\* InitChain(req): updateValidator on each validator in turn; a success is
\* entered into GenesisValidators, and the entry panics on a nil map.
\* codes: the result of each updateValidator the loop got to
RECURSIVE InitChainF(_, _)
InitChainF(a, validators) ==
    IF validators = <<>> THEN [app |-> a, codes |-> <<>>]
    ELSE LET v == Head(validators)
             r == updateValidator(a, v)
         IN  IF r.code # CodeOk
             THEN LET rest == InitChainF(a, Tail(validators))
                  IN  [app |-> rest.app, codes |-> <<r.code>> \o rest.codes]
             ELSE IF r.app.GenesisValidators.nil
                  THEN [app |-> Panic(r.app), codes |-> <<"panic">>]
                  ELSE LET rest == InitChainF(
                                     [r.app EXCEPT !.GenesisValidators =
                                         MapPut(r.app.GenesisValidators,
                                                v.PubKey, v.Power)],
                                     Tail(validators))
                       IN  [app |-> rest.app, codes |-> <<CodeOk>> \o rest.codes]

\* BeginBlock without the reset of ValUpdates
BeginBlockF_KeepsUpdates(a) == [a EXCEPT !.GenesisValidators = EmptyMap]

\* BeginBlock(req)
BeginBlockF(a) == [a EXCEPT !.ValUpdates = <<>>, !.GenesisValidators = EmptyMap]

\* EndBlock(req)
EndBlockF(a) == [ValidatorUpdates |-> a.ValUpdates]

\* the key of public key k's validator record
ValidatorKey(k) == ValidatorSetChangePrefix \o k

\* Validators(): the validators decoded from the keys below the validator
\* prefix, in key order; a value that does not decode panics
isValidatorTx(key) == HasPrefix(key, ValidatorSetChangePrefix)

ValidatorKeys(tree) == {k \in DOMAIN tree : isValidatorTx(k)}

\* the keys of a set in ascending order, as tree.Iterate visits them
RECURSIVE SortedKeys(_)
SortedKeys(S) ==
    IF S = {} THEN <<>>
    ELSE LET m == CHOOSE k \in S : \A j \in S \ {k} : BytesLess(k, j)
         IN  <<m>> \o SortedKeys(S \ {m})

Validators(a) ==
    LET keys == SortedKeys(ValidatorKeys(a.state))
        bad == \E k \in ValidatorKeys(a.state) : ReadMessage(a.state[k]).err
    IN  [panic |-> bad,
         validators |-> IF bad THEN <<>>
                        ELSE [i \in 1..Len(keys) |->
                                 ReadMessage(a.state[keys[i]]).validator]]

-----------------------------------------------------------------------------
(* The state machine.                                                       *)
(*   app, peer   the two application instances                              *)
(*   last        the last call made: its name, argument and results         *)
(*   added       each public key's power as the last accepted validator     *)
(*               change set it (0: none did, or it removed the key), and    *)
(*               the call that change came by                               *)
(*   accepted    the validator changes accepted since the last BeginBlock   *)
(*               (or since construction), each with the call it came by     *)
(*   hist        what a specification keeps of the past, by the names in    *)
(*               its set T: "initChain", whether InitChain was called;      *)
(*               "begun", what Validators() listed at the last BeginBlock;  *)
(*               "committed", the tree the last Commit saved                *)
(* The calls arrive in any order: the application refuses none.             *)

NoArg == "none"

Call(op, arg, res, peerRes) ==
    [op |-> op, arg |-> arg, res |-> res, peerRes |-> peerRes]

\* the validator lists of an InitChain request: at most n records of S
RECURSIVE SeqsUpTo(_, _)
SeqsUpTo(S, n) ==
    IF n = 0 THEN {<<>>}
    ELSE SeqsUpTo(S, n - 1)
         \cup {Append(q, x) : q \in {r \in SeqsUpTo(S, n - 1) : Len(r) = n - 1}, x \in S}

\* the records of `validators` that updateValidator accepted, in order
RECURSIVE OkRecords(_, _)
OkRecords(validators, codes) ==
    IF validators = <<>> \/ codes = <<>> THEN <<>>
    ELSE IF Head(codes) = CodeOk
         THEN <<Head(validators)>> \o OkRecords(Tail(validators), Tail(codes))
         ELSE OkRecords(Tail(validators), Tail(codes))

\* `added` after the accepted records `recs` of call `via`: each public
\* key's power as last set, 0 once removed
RECURSIVE AddedAfter(_, _, _)
AddedAfter(set, recs, via) ==
    IF recs = <<>> THEN set
    ELSE AddedAfter([set EXCEPT ![Head(recs).PubKey] =
                                   [Power |-> Head(recs).Power, via |-> via]],
                    Tail(recs), via)

Tagged(recs, via) == [i \in 1..Len(recs) |-> [v |-> recs[i], via |-> via]]

\* nothing kept yet: no InitChain, no BeginBlock, version 0 saved empty
NoHistory ==
    [initChain |-> FALSE,
     begun |-> [set |-> FALSE, panic |-> FALSE, validators |-> <<>>],
     committed |-> EmptyTree]

Init ==
    /\ hist = NoHistory
    /\ app = NewPersistentApplication
    /\ peer = NewPersistentApplication
    /\ last = Call("New", NoArg, NoArg, NoArg)
    /\ added = [k \in PubKeys |-> [Power |-> 0, via |-> "none"]]
    /\ accepted = <<>>

Running == ~app.crashed /\ ~peer.crashed

InitChain(validators, T) ==
    LET r == InitChainF(app, validators)
        rp == InitChainF(peer, validators)
        recs == OkRecords(validators, r.codes)
    IN  /\ Running
        /\ Len(r.app.ValUpdates) <= MaxUpdates
        /\ app' = r.app
        /\ peer' = rp.app
        /\ added' = AddedAfter(added, recs, "InitChain")
        /\ accepted' = accepted \o Tagged(recs, "InitChain")
        /\ last' = Call("InitChain", validators, r.codes, rp.codes)
        /\ hist' = IF "initChain" \in T THEN [hist EXCEPT !.initChain = TRUE]
                   ELSE hist

BeginBlock(T) ==
    /\ Running
    /\ app' = BeginBlockF(app)
    /\ peer' = BeginBlockF(peer)
    /\ accepted' = <<>>
    /\ last' = Call("BeginBlock", NoArg, NoArg, NoArg)
    /\ hist' = IF "begun" \in T
               THEN [hist EXCEPT !.begun = [set |-> TRUE,
                                            panic |-> Validators(app).panic,
                                            validators |-> Validators(app).validators]]
               ELSE hist
    /\ UNCHANGED added

\* the validator record of a ValidatorSet transaction
DeliveredRecords(tx) ==
    IF tx.Type = ValidatorSet
    THEN <<MkValidator(ToValidator(tx).PubKey, ToValidator(tx).Power)>>
    ELSE <<>>

DeliverTx(tx, nilOnDecodeErr) ==
    LET r == DeliverTxF(app, tx, nilOnDecodeErr)
        rp == DeliverTxF(peer, tx, nilOnDecodeErr)
    IN  /\ Running
        /\ Len(r.app.ValUpdates) <= MaxUpdates
        /\ app' = r.app
        /\ peer' = rp.app
        /\ added' = IF r.code = CodeOk
                    THEN AddedAfter(added, DeliveredRecords(tx), "DeliverTx")
                    ELSE added
        /\ accepted' = IF r.code = CodeOk
                       THEN accepted \o Tagged(DeliveredRecords(tx), "DeliverTx")
                       ELSE accepted
        /\ last' = Call("DeliverTx", tx, r.code, rp.code)
        /\ UNCHANGED hist

EndBlock ==
    /\ Running
    /\ last' = Call("EndBlock", NoArg, EndBlockF(app), EndBlockF(peer))
    /\ UNCHANGED <<app, peer, added, accepted, hist>>

Commit(T) ==
    LET r == CommitF(app)
        rp == CommitF(peer)
    IN  /\ Running
        /\ app.latestVersion < MaxHeight
        /\ app' = r.app
        /\ peer' = rp.app
        /\ last' = Call("Commit", NoArg, [code |-> r.code, data |-> r.data],
                        [code |-> rp.code, data |-> rp.data])
        /\ hist' = IF "committed" \in T /\ r.code = CodeOk
                   THEN [hist EXCEPT !.committed = app.state]
                   ELSE hist
        /\ UNCHANGED <<added, accepted>>

CheckTx(tx) ==
    LET r == CheckTxF(app, tx)
    IN  /\ Running
        /\ app' = r.app
        /\ last' = Call("CheckTx", tx, r.code, NoArg)
        /\ UNCHANGED <<peer, added, accepted, hist>>

PeerCheckTx(tx) ==
    LET r == CheckTxF(peer, tx)
    IN  /\ Running
        /\ peer' = r.app
        /\ last' = Call("PeerCheckTx", tx, NoArg, r.code)
        /\ UNCHANGED <<app, added, accepted, hist>>

Query(q) ==
    /\ Running
    /\ last' = Call("Query", q, QueryF(app, q), NoArg)
    /\ UNCHANGED <<app, peer, added, accepted, hist>>

PeerQuery(q) ==
    /\ Running
    /\ last' = Call("PeerQuery", q, NoArg, QueryF(peer, q))
    /\ UNCHANGED <<app, peer, added, accepted, hist>>

Info ==
    /\ Running
    /\ last' = Call("Info", NoArg, InfoF(app), InfoF(peer))
    /\ UNCHANGED <<app, peer, added, accepted, hist>>

\* the calls, with the requests drawn from the given sets: genesis lists G,
\* delivered transactions D, transactions C checked on app and P checked on
\* peer, and queries Q; T names what hist keeps
NextOf(G, D, C, P, Q, T) ==
    \/ \E validators \in G : InitChain(validators, T)
    \/ BeginBlock(T)
    \/ \E tx \in D, nilOnDecodeErr \in BOOLEAN : DeliverTx(tx, nilOnDecodeErr)
    \/ EndBlock
    \/ Commit(T)
    \/ \E tx \in C : CheckTx(tx)
    \/ \E tx \in P : PeerCheckTx(tx)
    \/ \E q \in Q : Query(q)
    \/ \E q \in Q : PeerQuery(q)
    \/ Info

-----------------------------------------------------------------------------
(* Spec: blocks and the validator set.  Genesis validators, validator       *)
(* changes, a validator payload that does not decode, unknown payloads and  *)
(* a key/value write to a key that spells a validator's.                    *)

BlockValidators == {MkValidator(<<1>>, 1), MkValidator(<<2>>, 1), MkValidator(<<2>>, 0)}

BlockGenesis == SeqsUpTo(BlockValidators, MaxGenesis)

BlockTxs ==
    {ValidatorTx(Unsigned, <<1>>, p) : p \in Powers}
    \cup {ValidatorTx(Unsigned, <<2>>, 0)}
    \cup {BadPayloadTx(Unsigned, ValidatorSet)}
    \cup {UnknownTx(Unsigned, e) : e \in BOOLEAN}
    \cup {DbTx(Unsigned, ValidatorKey(<<1>>))}

BlockChecks == {UnknownTx(Unsigned, TRUE)}

BlockQueries == {[path |-> DbGet, ok |-> TRUE, key |-> ValidatorKey(<<1>>)]}

Next ==
    NextOf(BlockGenesis, BlockTxs, BlockChecks, BlockChecks, BlockQueries,
           {"initChain"})

Spec == Init /\ [][Next]_vars

-----------------------------------------------------------------------------
(* SpecCheckTx: admission.  CheckTx and Query of every shape reach the two  *)
(* instances apart, between genesis, account registrations, key/value       *)
(* writes and commits.                                                      *)

CheckGenesisValidators ==
    {MkValidator(<<1>>, 1), MkValidator(<<1>>, 0), MkValidator(<<2>>, 2)}

CheckGenesis == SeqsUpTo(CheckGenesisValidators, MaxGenesis)

CheckDelivered ==
    {AccountTx(Unsigned, <<1>>, 1), BadPayloadTx(Unsigned, AccountSet),
     UnknownTx(Unsigned, FALSE), DbTx(Unsigned, PlainKey)}

CheckTxs ==
    {ValidatorTx(s, <<1>>, 1) : s \in Signers}
    \cup {AccountTx(s, <<1>>, 1) : s \in Signers}
    \cup {DbTx(s, PlainKey) : s \in {Unsigned, <<SomeSignature, <<1>> >>}}
    \cup {BadPayloadTx(<<EmptyBytes, <<1>> >>, t) : t \in {ValidatorSet, AccountSet, DbSet}}
    \cup {UnknownTx(Unsigned, e) : e \in BOOLEAN}

PeerCheckTxs ==
    {AccountTx(<<SomeSignature, <<1>> >>, <<1>>, 1), UnknownTx(Unsigned, TRUE)}

CheckQueries ==
    {[path |-> DbGet, ok |-> TRUE, key |-> k] :
        k \in {PlainKey, AccountPrefix \o <<1>>}}
    \cup {[path |-> DbGet, ok |-> FALSE, key |-> EmptyBytes],
          [path |-> "other", ok |-> TRUE, key |-> EmptyBytes]}

NextCheckTx ==
    NextOf(CheckGenesis, CheckDelivered, CheckTxs, PeerCheckTxs, CheckQueries, {})

SpecCheckTx == Init /\ [][NextCheckTx]_vars

-----------------------------------------------------------------------------
(* SpecDelta: the validator set across a block.  hist keeps what            *)
(* Validators() listed at BeginBlock; transactions of every kind are        *)
(* delivered in the block.                                                  *)

DeltaGenesis == {<<>>, <<MkValidator(<<2>>, 1)>>}

DeltaTxs ==
    {ValidatorTx(Unsigned, <<1>>, p) : p \in Powers}
    \cup {ValidatorTx(Unsigned, <<2>>, 0)}
    \cup {AccountTx(Unsigned, <<1>>, 1)}
    \cup {UnknownTx(Unsigned, FALSE)}
    \cup {DbTx(Unsigned, ValidatorKey(<<1>>))}

NextDelta ==
    NextOf(DeltaGenesis, DeltaTxs, BlockChecks, BlockChecks, BlockQueries,
           {"begun"})

SpecDelta == Init /\ [][NextDelta]_vars

-----------------------------------------------------------------------------
(* SpecStore: the contents of the tree.  Key/value writes to a plain key,   *)
(* to a validator's key and to an account's key, and a genesis validator of *)
(* negative power.                                                          *)

StoreGenesis == {<<>>, <<MkValidator(<<1>>, -1)>>}

StoreTxs ==
    {AccountTx(Unsigned, <<1>>, 1), ValidatorTx(Unsigned, <<1>>, 1),
     ValidatorTx(Unsigned, <<1>>, 0), UnknownTx(Unsigned, FALSE),
     BadPayloadTx(Unsigned, AccountSet)}
    \cup {DbTx(Unsigned, k) :
            k \in {PlainKey, ValidatorKey(<<1>>), AccountPrefix \o <<1>>}}

NextStore ==
    NextOf(StoreGenesis, StoreTxs, BlockChecks, BlockChecks, BlockQueries, {})

SpecStore == Init /\ [][NextStore]_vars

-----------------------------------------------------------------------------
(* SpecVisible: reads between the writes of a block and its Commit.  hist   *)
(* keeps the tree the last Commit saved and whether InitChain was called.   *)

VisibleGenesis == {<<>>, <<MkValidator(<<1>>, 1)>>}

VisibleTxs ==
    {DbTx(Unsigned, PlainKey), AccountTx(Unsigned, <<1>>, 1),
     AccountTx(Unsigned, <<1>>, 2), ValidatorTx(Unsigned, <<1>>, 1),
     ValidatorTx(Unsigned, <<1>>, 0), UnknownTx(Unsigned, FALSE)}

VisibleChecks ==
    {DbTx(<<SomeSignature, <<1>> >>, PlainKey), UnknownTx(Unsigned, TRUE)}

VisibleQueries ==
    {[path |-> DbGet, ok |-> TRUE, key |-> k] :
        k \in {PlainKey, AccountPrefix \o <<1>>, ValidatorKey(<<1>>)}}

NextVisible ==
    NextOf(VisibleGenesis, VisibleTxs, VisibleChecks, BlockChecks, VisibleQueries,
           {"committed", "initChain"})

SpecVisible == Init /\ [][NextVisible]_vars

-----------------------------------------------------------------------------
(* The properties *)

\* what Commit would return on application a
CommitResult(a) == [code |-> CommitF(a).code, data |-> CommitF(a).data]

\* C1: a CheckTx call, whatever its payload, leaves the tree's contents,
\* ValUpdates and GenesisValidators as they were, and with them the root
\* fingerprint the next Commit returns
C1_CheckTxChangesNothing ==
    [][(last'.op = "CheckTx") =>
          /\ app'.state = app.state
          /\ app'.ValUpdates = app.ValUpdates
          /\ app'.GenesisValidators = app.GenesisValidators
          /\ CommitResult(app') = CommitResult(app)]_vars

\* a CheckTx of a malformed payload has run on an application that holds
\* keys, pending updates and genesis validators
C1_Witness ==
    /\ last.op = "CheckTx"
    /\ last.arg.err
    /\ app.state # EmptyTree
    /\ app.ValUpdates # <<>>
    /\ DOMAIN app.GenesisValidators.m # {}

\* C2: a Commit that returns moves the latest version, the height Info
\* reports, up by exactly 1; a Commit that panics and every other call leave
\* it where it was
C2_HeightStepsByOne ==
    [][/\ (last'.op = "Commit" /\ last'.res.code = CodeOk)
            => app'.latestVersion = app.latestVersion + 1
       /\ ~(last'.op = "Commit" /\ last'.res.code = CodeOk)
            => app'.latestVersion = app.latestVersion
       /\ InfoF(app').LastBlockHeight = app'.latestVersion]_vars

\* the second Commit has returned
C2_Witness ==
    /\ last.op = "Commit"
    /\ last.res.code = CodeOk
    /\ app.latestVersion = 2
    /\ InfoF(app).LastBlockHeight = 2

\* C3: two instances given the same InitChain, BeginBlock, DeliverTx,
\* EndBlock and Commit calls hold the same tree, updates and version and
\* returned the same results, whatever CheckTx and Query calls each got
C3_ReplicasAgree ==
    /\ app.state = peer.state
    /\ app.ValUpdates = peer.ValUpdates
    /\ app.latestVersion = peer.latestVersion
    /\ app.crashed = peer.crashed
    /\ EndBlockF(app) = EndBlockF(peer)
    /\ last.op \in {"InitChain", "DeliverTx", "EndBlock", "Commit"}
          => last.res = last.peerRes

\* both instances committed a tree with keys in it, and only the peer then
\* got a CheckTx
C3_Witness ==
    /\ last.op = "PeerCheckTx"
    /\ peer.latestVersion >= 1
    /\ peer.state # EmptyTree
    /\ peer.ValUpdates # <<>>

\* the records Validators() lists for public key k
Listed(a, k) ==
    {i \in DOMAIN Validators(a).validators : Validators(a).validators[i].PubKey = k}

\* C4 (as claimed): while the last accepted change of public key k is a
\* DeliverTx with power P > 0, Validators() lists exactly one record for k,
\* with power P
C4_DeliveredValidatorListed ==
    ~app.crashed =>
        \A k \in PubKeys :
            (added[k].via = "DeliverTx" /\ added[k].Power > 0) =>
                /\ ~Validators(app).panic
                /\ Cardinality(Listed(app, k)) = 1
                /\ \A i \in Listed(app, k) :
                       Validators(app).validators[i].Power = added[k].Power

\* C5: a ValidatorChange with power 0 for a public key with no validator
\* record returns Unauthorized from DeliverTx and from InitChain's
\* updateValidator, and leaves the tree and ValUpdates as they were
C5_RemoveAbsentUnauthorized ==
    [][/\ (/\ last'.op = "DeliverTx"
           /\ last'.arg.Type = ValidatorSet /\ last'.arg.ok
           /\ last'.arg.Power = 0
           /\ ~Has(app.state, ValidatorKey(last'.arg.PubKey)))
          => /\ last'.res = CodeTypeUnauthorized
             /\ app'.state = app.state
             /\ app'.ValUpdates = app.ValUpdates
       /\ (/\ last'.op = "InitChain"
           /\ last'.arg # <<>>
           /\ \A i \in DOMAIN last'.arg :
                 /\ last'.arg[i].Power = 0
                 /\ ~Has(app.state, ValidatorKey(last'.arg[i].PubKey)))
          => /\ \A i \in DOMAIN last'.res : last'.res[i] = CodeTypeUnauthorized
             /\ Len(last'.res) = Len(last'.arg)
             /\ app'.state = app.state
             /\ app'.ValUpdates = app.ValUpdates
             /\ app'.GenesisValidators = app.GenesisValidators]_vars

\* DeliverTx has refused to remove a validator that has no record, on a tree
\* that holds another validator and with an update pending
C5_Witness ==
    /\ last.op = "DeliverTx"
    /\ last.arg.Type = ValidatorSet /\ last.arg.ok /\ last.arg.Power = 0
    /\ last.res = CodeTypeUnauthorized
    /\ \E k \in PubKeys : Has(app.state, ValidatorKey(k))
    /\ app.ValUpdates # <<>>

\* C6: for a validator k added and not removed since, DeliverTx of k with
\* power 0 returns OK, leaves no record of k for Validators() to list, and
\* the same removal delivered again returns Unauthorized
C6_RemoveAddedThenGone ==
    [][(/\ last'.op = "DeliverTx"
        /\ last'.arg.Type = ValidatorSet /\ last'.arg.ok
        /\ last'.arg.Power = 0
        /\ added[last'.arg.PubKey].Power > 0)
       => /\ last'.res = CodeOk
          /\ ~Has(app'.state, ValidatorKey(last'.arg.PubKey))
          /\ Listed(app', last'.arg.PubKey) = {}
          /\ DeliverTxF(app', last'.arg, FALSE).code = CodeTypeUnauthorized
          /\ DeliverTxF(app', last'.arg, TRUE).code = CodeTypeUnauthorized]_vars

\* a validator added by InitChain or DeliverTx has been removed by DeliverTx
C6_Witness ==
    /\ last.op = "DeliverTx"
    /\ last.arg.Type = ValidatorSet /\ last.arg.ok /\ last.arg.Power = 0
    /\ last.res = CodeOk
    /\ added[last.arg.PubKey].Power = 0
    /\ added[last.arg.PubKey].via = "DeliverTx"
    /\ Validators(app).validators # <<>>

\* the records of the accepted changes that came by `via`
RecordsVia(seq, via) ==
    LET sel == SelectSeq(seq, LAMBDA x : x.via = via)
    IN  [i \in 1..Len(sel) |-> sel[i].v]

AllRecords(seq) == [i \in 1..Len(seq) |-> seq[i].v]

\* C7 (as claimed): EndBlock returns the records of the ValidatorChange
\* transactions DeliverTx accepted since the last BeginBlock, in order, and
\* nothing else
C7_EndBlockOnlyDelivered ==
    last.op = "EndBlock"
        => last.res.ValidatorUpdates = RecordsVia(accepted, "DeliverTx")

\* C7 (amended): EndBlock returns the records of the validator changes
\* accepted since the last BeginBlock (since construction when there was
\* none), in order: those DeliverTx accepted and those InitChain accepted
C7_EndBlockAllAccepted ==
    last.op = "EndBlock" => last.res.ValidatorUpdates = AllRecords(accepted)

\* in a block after the first Commit, EndBlock has returned one record that
\* came by DeliverTx, while a validator from an earlier block is in the tree
C7_Witness ==
    /\ last.op = "EndBlock"
    /\ app.latestVersion >= 1
    /\ Len(accepted) = 1
    /\ accepted[1].via = "DeliverTx"
    /\ last.res.ValidatorUpdates = <<accepted[1].v>>
    /\ \E k \in PubKeys \ {accepted[1].v.PubKey} : added[k].Power > 0

\* C8 (as claimed): no call other than InitChain takes a public key out of
\* GenesisValidators or changes its power
C8_GenesisValidatorsPersist ==
    [][(last'.op # "InitChain" /\ ~app'.crashed) =>
          \A k \in DOMAIN app.GenesisValidators.m :
              /\ k \in DOMAIN app'.GenesisValidators.m
              /\ app'.GenesisValidators.m[k] = app.GenesisValidators.m[k]]_vars

\* C9 (as claimed): CheckTx of an AccountSet or ValidatorSet transaction
\* whose signer is not in GenesisValidators returns Unauthorized
C9_NonGenesisSignerUnauthorized ==
    (/\ last.op = "CheckTx"
     /\ ~last.arg.err
     /\ last.arg.Type \in {AccountSet, ValidatorSet}
     /\ last.arg.SignPubKey \notin DOMAIN app.GenesisValidators.m)
    => last.res = CodeTypeUnauthorized

\* C10: DeliverTx of a payload of unknown type returns EncodingError and
\* leaves the tree, ValUpdates and the next Commit's fingerprint as they were
C10_UnknownTxRejected ==
    [][(last'.op = "DeliverTx" /\ last'.arg.Type = UnknownType) =>
          /\ last'.res = CodeTypeEncodingError
          /\ app'.state = app.state
          /\ app'.ValUpdates = app.ValUpdates
          /\ CommitResult(app') = CommitResult(app)]_vars

\* DeliverTx has rejected an unknown payload on a tree with keys and with an
\* update pending
C10_Witness ==
    /\ last.op = "DeliverTx"
    /\ last.arg.Type = UnknownType
    /\ last.res = CodeTypeEncodingError
    /\ app.state # EmptyTree
    /\ app.ValUpdates # <<>>

\* C11 (as claimed): InitChain on an application that has had no BeginBlock
\* completes; every entry gets its result, GenesisValidators holds exactly
\* the public keys of the entries updateValidator accepted, each with the
\* power of its last accepted entry, and an accepted entry of power > 0 has
\* its record in the tree
C11_FreshInitChainCompletes ==
    [][(last'.op = "InitChain" /\ app.GenesisValidators.nil) =>
          LET recs == OkRecords(last'.arg, last'.res)
              m == app'.GenesisValidators.m
          IN  /\ ~app'.crashed
              /\ Len(last'.res) = Len(last'.arg)
              /\ DOMAIN m = {recs[i].PubKey : i \in DOMAIN recs}
              /\ \A i \in DOMAIN recs :
                    (\A j \in DOMAIN recs : j > i => recs[j].PubKey # recs[i].PubKey)
                    => /\ m[recs[i].PubKey] = recs[i].Power
                       /\ recs[i].Power > 0
                            => Has(app'.state, ValidatorKey(recs[i].PubKey))]_vars

\* C12 (as claimed): a Commit panics exactly when no InitChain was called
\* before it
C12_CommitFatalIffUninitialized ==
    last.op = "Commit" => (last.res.code = "panic" <=> ~hist.initChain)

C14_QueryReportsPresence ==
    [][(last'.op = "Query" /\ last'.arg.path = DbGet /\ last'.arg.ok) =>
          /\ app' = app
          /\ peer' = peer
          /\ last'.res.code = CodeOk
          /\ Has(app.state, last'.arg.key) =>
                /\ last'.res.log = "exists"
                /\ last'.res.value = app.state[last'.arg.key]
          /\ ~Has(app.state, last'.arg.key) =>
                /\ last'.res.log = "does not exist"
                /\ last'.res.value = NilValue]_vars

\* a Query has found the first key of a committed tree that holds several
C14_Witness ==
    /\ last.op = "Query"
    /\ last.arg.path = DbGet /\ last.arg.ok
    /\ last.res.code = CodeOk
    /\ last.res.log = "exists"
    /\ last.res.index = 0
    /\ last.res.value = app.state[last.arg.key]
    /\ Size(app.state) > 1
    /\ app.latestVersion >= 1

\* C15 (as claimed): CheckTx of a signed key/value write that decodes, which
\* only the signer rule can reject, is rejected exactly when the tree holds
\* no account entry for the signer's public key
C15_SignerRuleIffNoAccount ==
    (/\ last.op = "CheckTx"
     /\ ~last.arg.err
     /\ last.arg.Signature # EmptyBytes
     /\ last.arg.Type = DbSet /\ last.arg.ok)
    => (last.res # CodeOk
          <=> ~Has(app.state, AccountSetChangePrefix \o last.arg.SignPubKey))

\* C16: CheckTx returns OK for an AccountSet or ValidatorSet transaction only
\* when GenesisValidators holds the signer's public key with a power other
\* than 0
C16_AdmittedOnlyGenesisSigner ==
    (/\ last.op = "CheckTx"
     /\ last.arg.Type \in {AccountSet, ValidatorSet}
     /\ last.res = CodeOk)
    => /\ last.arg.SignPubKey \in DOMAIN app.GenesisValidators.m
       /\ app.GenesisValidators.m[last.arg.SignPubKey] # 0

\* CheckTx has admitted a signed ValidatorSet transaction of a genesis
\* validator, while another public key is not in GenesisValidators
C16_Witness ==
    /\ last.op = "CheckTx"
    /\ last.arg.Type = ValidatorSet
    /\ last.arg.Signature # EmptyBytes
    /\ last.res = CodeOk
    /\ app.GenesisValidators.m[last.arg.SignPubKey] > 0
    /\ \E k \in PubKeys : k \notin DOMAIN app.GenesisValidators.m

\* the validator set a list of validators spells: its records
ValSet(validators) == {validators[i] : i \in DOMAIN validators}

\* a validator set after the updates, applied in order: power 0 removes the
\* public key, any other power sets the public key's power
RECURSIVE ApplyUpdates(_, _)
ApplyUpdates(set, updates) ==
    IF updates = <<>> THEN set
    ELSE LET u == Head(updates)
             others == {v \in set : v.PubKey # u.PubKey}
         IN  ApplyUpdates(IF u.Power = 0 THEN others ELSE others \cup {u},
                          Tail(updates))

\* C17 (as claimed): what EndBlock returns, applied to the validators listed
\* at the preceding BeginBlock, gives the validators listed at EndBlock
C17_UpdatesExplainValidators ==
    (last.op = "EndBlock" /\ hist.begun.set /\ ~hist.begun.panic) =>
        /\ ~Validators(app).panic
        /\ ValSet(Validators(app).validators)
             = ApplyUpdates(ValSet(hist.begun.validators),
                            last.res.ValidatorUpdates)

\* C18 (as claimed): every entry of the tree under the validator prefix
\* decodes to a validator whose public key is the rest of the key and whose
\* power is above 0, so Validators() does not panic
C18_ValidatorEntriesWellFormed ==
    /\ ~Validators(app).panic
    /\ \A k \in ValidatorKeys(app.state) :
          /\ ~ReadMessage(app.state[k]).err
          /\ ValidatorKey(ReadMessage(app.state[k]).validator.PubKey) = k
          /\ ReadMessage(app.state[k]).validator.Power > 0

\* the entries of the tree under a prefix
Under(tree, prefix) ==
    [k \in {j \in DOMAIN tree : HasPrefix(j, prefix)} |-> tree[k]]

\* C19 (as claimed): a DeliverTx of a DbSet or AccountSet transaction leaves
\* the entries under the validator prefix and what Validators() lists as
\* they were, and a DeliverTx of a DbSet or ValidatorSet transaction leaves
\* the entries under the account prefix as they were
C19_NamespacesDisjoint ==
    [][(last'.op = "DeliverTx" /\ ~app'.crashed) =>
          /\ last'.arg.Type \in {DbSet, AccountSet} =>
                /\ Under(app'.state, ValidatorSetChangePrefix)
                     = Under(app.state, ValidatorSetChangePrefix)
                /\ Validators(app') = Validators(app)
          /\ last'.arg.Type \in {DbSet, ValidatorSet} =>
                Under(app'.state, AccountPrefix) = Under(app.state, AccountPrefix)]_vars

\* the application reading the tree the last Commit saved
AtCommitted(a) == [a EXCEPT !.state = hist.committed]

\* C20 (as claimed): with no writes but DeliverTx's, Query(DbGet) answers
\* with the code, log and value, and CheckTx with the code, that the tree
\* the last Commit saved gives
C20_ReadsSeeCommitted ==
    ~hist.initChain =>
        /\ (last.op = "Query" /\ last.arg.path = DbGet /\ last.arg.ok) =>
              /\ last.res.code = QueryF(AtCommitted(app), last.arg).code
              /\ last.res.log = QueryF(AtCommitted(app), last.arg).log
              /\ last.res.value = QueryF(AtCommitted(app), last.arg).value
        /\ last.op = "CheckTx"
              => last.res = CheckTxCode(AtCommitted(app), last.arg)

====
